---- MODULE Spec2Model ----
(***************************************************************************)
(* Planner-App persistence core: TaskRepository (planner_app/db.py), the   *)
(* Task record (planner_app/models.py) and week_dates                      *)
(* (planner_app/services.py).                                              *)
(*                                                                         *)
(* The store is the content of the SQLite table `tasks` together with the  *)
(* AUTOINCREMENT counter SQLite keeps for it in sqlite_sequence.  Every    *)
(* repository call opens its own connection, runs one statement and        *)
(* commits, so each call is one atomic action.                             *)
(***************************************************************************)
EXTENDS Integers, Sequences, FiniteSets, TLC

VARIABLES
    tasks,      \* the rows of table `tasks` (a set of row records)
    seq,        \* sqlite_sequence.seq of table `tasks`: the largest rowid ever assigned
    outcome,    \* the last repository call: operation, argument, exception raised,
                \* value returned and number of rows its statement changed
    issued,     \* history: every id a create call has returned so far
    week,       \* how the last week_dates call ended
    ui          \* the week view: for each day panel, the items of its task tree as
                \* last loaded and the id of the tree's current item

vars == <<tasks, seq, outcome, issued, week, ui>>

(***************************************************************************)
(* Bounds of the model.                                                    *)
(***************************************************************************)
\* create is not called any more once this many ids have been assigned
MaxId == 3

(***************************************************************************)
(* Python values.                                                          *)
(***************************************************************************)
\* Python's None and SQL's NULL (ids and sort orders of the model are >= 0)
None == -1

NoError == "none"

\* datetime.date(year, month, day)
Date(y, m, d) == [year |-> y, month |-> m, day |-> d]

\* datetime.MAXYEAR: date.max is 9999-12-31 (and date.min is 0001-01-01, day 1)
MAXYEAR == 9999

IsLeap(y) == y % 4 = 0 /\ (y % 100 # 0 \/ y % 400 = 0)

DaysInMonth(y, m) ==
    IF m = 2 THEN (IF IsLeap(y) THEN 29 ELSE 28)
    ELSE IF m \in {4, 6, 9, 11} THEN 30 ELSE 31

\* number of days before January 1st of year y
DaysBeforeYear(y) ==
    LET p == y - 1 IN p * 365 + (p \div 4) - (p \div 100) + (p \div 400)

RECURSIVE DaysBeforeMonth(_, _)
\* number of days in year y before the first day of month m
DaysBeforeMonth(y, m) ==
    IF m = 1 THEN 0 ELSE DaysBeforeMonth(y, m - 1) + DaysInMonth(y, m - 1)

\* date.toordinal(): 0001-01-01 is day 1
toordinal(d) == DaysBeforeYear(d.year) + DaysBeforeMonth(d.year, d.month) + d.day

\* date.max.toordinal()
MaxOrdinal == toordinal(Date(MAXYEAR, 12, 31))

\* date.fromordinal(n), by the 400/100/4/1-year cycle decomposition of the
\* proleptic Gregorian calendar
fromordinal(n) ==
    LET n0   == n - 1
        n400 == n0 \div 146097
        r400 == n0 % 146097
        n100 == r400 \div 36524
        r100 == r400 % 36524
        n4   == r100 \div 1461
        r4   == r100 % 1461
        n1   == r4 \div 365
        r1   == r4 % 365
        y    == n400 * 400 + n100 * 100 + n4 * 4 + n1 + 1
    IN  IF n1 = 4 \/ n100 = 4
        THEN Date(y - 1, 12, 31)
        ELSE LET m == CHOOSE k \in 1..12 :
                          /\ DaysBeforeMonth(y, k) <= r1
                          /\ r1 < DaysBeforeMonth(y, k) + DaysInMonth(y, k)
             IN  Date(y, m, r1 - DaysBeforeMonth(y, m) + 1)

(***************************************************************************)
(* ISO-8601 text of a date, as stored in column due_date: a string is a    *)
(* sequence of one-character strings.                                      *)
(***************************************************************************)
DigitChars == <<"0", "1", "2", "3", "4", "5", "6", "7", "8", "9">>

DigitChar(n) == DigitChars[n + 1]

DigitValue(c) == CHOOSE n \in 0..9 : DigitChars[n + 1] = c

\* date.isoformat(): "%04d-%02d-%02d"
isoformat(d) ==
    << DigitChar((d.year \div 1000) % 10), DigitChar((d.year \div 100) % 10),
       DigitChar((d.year \div 10) % 10), DigitChar(d.year % 10), "-",
       DigitChar((d.month \div 10) % 10), DigitChar(d.month % 10), "-",
       DigitChar((d.day \div 10) % 10), DigitChar(d.day % 10) >>

\* date.fromisoformat(text) of a "YYYY-MM-DD" text
fromisoformat(s) ==
    Date(DigitValue(s[1]) * 1000 + DigitValue(s[2]) * 100
             + DigitValue(s[3]) * 10 + DigitValue(s[4]),
         DigitValue(s[6]) * 10 + DigitValue(s[7]),
         DigitValue(s[9]) * 10 + DigitValue(s[10]))

\* int(flag) of a bool
BoolToInt(b) == IF b THEN 1 ELSE 0

\* bool(n) of an int
IntToBool(n) == n # 0

(***************************************************************************)
(* The Task dataclass and the inputs the calls are tried with.             *)
(***************************************************************************)
Task(id, title, due_date, description, is_completed, parent_task_id, sort_order) ==
    [id |-> id, title |-> title, due_date |-> due_date, description |-> description,
     is_completed |-> is_completed, parent_task_id |-> parent_task_id,
     sort_order |-> sort_order]

Day1 == Date(2024, 1, 31)
Day2 == Date(2024, 2, 1)

StoreDates == {Day1, Day2}

\* ids a task of the inputs names as its parent
ParentIds == {1, 2}

\* (due_date, sort_order, title, description, is_completed) of the inputs: two
\* sort orders on one day, two days, an empty and a non-empty description, both
\* completion flags
Profiles ==
    { <<Day1, 0, "Untitled Task", "", FALSE>>,
      <<Day1, 1, "Buy milk", "2 litres", TRUE>>,
      <<Day2, 0, "Buy milk", "2 litres", TRUE>> }

TasksWithId(ids) ==
    { Task(i, p[3], p[1], p[4], p[5], par, p[2]) :
        i \in ids, p \in Profiles, par \in {None} \cup ParentIds }

\* tasks passed to create: no id yet
CreateInputs == TasksWithId({None})

\* tasks passed to update: with the id of a task that is or was stored, or with
\* no id (update reads no other field of those, so fewer of them are tried)
UpdateInputs ==
    TasksWithId(1..MaxId) \cup { t \in TasksWithId({None}) : t.parent_task_id = None }

\* ids passed to delete
DeleteInputs == 1..MaxId

(***************************************************************************)
(* The table `tasks` (schema of _init_db) and its statements.              *)
(***************************************************************************)
\* PRAGMA foreign_keys of a connection _connect returns: SQLite starts every
\* connection with foreign-key enforcement off and _connect never turns it on,
\* so the FOREIGN KEY ... ON DELETE CASCADE clause of the schema is not in force
foreign_keys == FALSE

\* the row with the values of title and description bound in the wrong order
TaskToRow_SwappedColumns(id, task) ==
    [id |-> id, title |-> task.description, description |-> task.title,
     due_date |-> isoformat(task.due_date),
     is_completed |-> BoolToInt(task.is_completed),
     parent_task_id |-> task.parent_task_id, sort_order |-> task.sort_order]

\* the row INSERT and UPDATE write for a task, under rowid id
TaskToRow(id, task) ==
    [id |-> id, title |-> task.title, description |-> task.description,
     due_date |-> isoformat(task.due_date),
     is_completed |-> BoolToInt(task.is_completed),
     parent_task_id |-> task.parent_task_id, sort_order |-> task.sort_order]

_row_to_task(row) ==
    Task(row.id, row.title, fromisoformat(row.due_date), row.description,
         IntToBool(row.is_completed), row.parent_task_id, row.sort_order)

Ids(rows) == { r.id : r \in rows }

SetMax(S) == CHOOSE x \in S : \A y \in S : y <= x

\* id INTEGER PRIMARY KEY without AUTOINCREMENT: one more than the largest rowid
\* the table holds now
NextRowid_NoAutoincrement(rows, s) == SetMax(Ids(rows) \cup {0}) + 1

\* id INTEGER PRIMARY KEY AUTOINCREMENT: one more than the largest rowid the
\* table has ever held, which sqlite_sequence remembers across deletes
NextRowid(rows, s) == SetMax(Ids(rows) \cup {s}) + 1

\* FOREIGN KEY(parent_task_id) REFERENCES tasks(id): does some row of rows violate it
ForeignKeyViolated(rows) ==
    \E r \in rows : r.parent_task_id # None /\ r.parent_task_id \notin Ids(rows)

RECURSIVE CascadeFrom(_, _)
\* ON DELETE CASCADE: the ids removed with the ids of gone
CascadeFrom(rows, gone) ==
    LET more == { r.id : r \in { x \in rows : x.parent_task_id \in gone } } \ gone
    IN  IF more = {} THEN gone ELSE CascadeFrom(rows, gone \cup more)

\* DELETE FROM tasks WHERE id = ? OR parent_task_id = ?
DeleteRows_WithChildren(rows, task_id) ==
    { r \in rows : r.id # task_id /\ r.parent_task_id # task_id }

\* DELETE FROM tasks WHERE id = ?
DeleteRows(rows, task_id) ==
    IF foreign_keys
    THEN { r \in rows : r.id \notin CascadeFrom(rows, {task_id}) }
    ELSE { r \in rows : r.id # task_id }

\* the UPDATE with due_date missing from its SET clause
UpdateRows_KeepsDueDate(rows, task) ==
    { IF r.id = task.id
      THEN [TaskToRow(r.id, task) EXCEPT !.due_date = r.due_date]
      ELSE r : r \in rows }

\* INSERT OR REPLACE in place of the UPDATE: a row is written also when none matches
UpdateRows_Upsert(rows, task) ==
    { r \in rows : r.id # task.id } \cup {TaskToRow(task.id, task)}

\* the UPDATE without its WHERE clause: every row takes the six values
UpdateRows_AllRows(rows, task) == { TaskToRow(r.id, task) : r \in rows }

\* UPDATE tasks SET (the six columns) WHERE id = ?
UpdateRows(rows, task) ==
    { IF r.id = task.id THEN TaskToRow(r.id, task) ELSE r : r \in rows }

\* COALESCE(parent_task_id, id)
ClusterKey(r) == IF r.parent_task_id # None THEN r.parent_task_id ELSE r.id

\* the ORDER BY without its second term: a root is not put before its children
OrderKey_NoRootFirst(r) == <<ClusterKey(r), r.sort_order, r.id>>

\* ORDER BY COALESCE(parent_task_id, id), parent_task_id IS NOT NULL, sort_order, id
OrderKey(r) ==
    <<ClusterKey(r), BoolToInt(r.parent_task_id # None), r.sort_order, r.id>>

RECURSIVE LexLess(_, _)
LexLess(a, b) ==
    /\ a # <<>>
    /\ \/ Head(a) < Head(b)
       \/ Head(a) = Head(b) /\ LexLess(Tail(a), Tail(b))

RECURSIVE OrderBy(_)
\* the rows of a set in ORDER BY order
OrderBy(rows) ==
    IF rows = {} THEN <<>>
    ELSE LET first == CHOOSE r \in rows :
                          \A o \in rows \ {r} : LexLess(OrderKey(r), OrderKey(o))
         IN  <<first>> \o OrderBy(rows \ {first})

\* list_for_date on a given table content
ListForDate(rows, task_date) ==
    LET selected == OrderBy({ r \in rows : r.due_date = isoformat(task_date) })
    IN  [ i \in 1..Len(selected) |-> _row_to_task(selected[i]) ]

list_for_date(task_date) == ListForDate(tasks, task_date)

\* a call of op with argument arg that returned value after its statement
\* changed `changed` rows
Returned(op, arg, value, changed) ==
    [op |-> op, arg |-> arg, err |-> NoError, ret |-> value, changed |-> changed]

\* a call of op with argument arg that raised exception
Raised(op, arg, exception) ==
    [op |-> op, arg |-> arg, err |-> exception, ret |-> None, changed |-> 0]

create(task) ==
    /\ seq < MaxId
    /\ LET new_id == NextRowid(tasks, seq)
           rows   == tasks \cup {TaskToRow(new_id, task)}
       IN  IF foreign_keys /\ ForeignKeyViolated(rows)
           THEN /\ outcome' = Raised("create", task, "IntegrityError")
                /\ UNCHANGED <<tasks, seq, issued, week>>
           ELSE /\ tasks' = rows
                /\ seq' = new_id
                /\ issued' = issued \cup {new_id}
                /\ outcome' = Returned("create", task, new_id, 1)
                /\ UNCHANGED week

\* update without the check of task.id: WHERE id = NULL matches no row
update_NoIdCheck(task) ==
    /\ tasks' = UpdateRows(tasks, task)
    /\ outcome' = Returned("update", task, None,
                           Cardinality({ r \in tasks : r.id = task.id }))
    /\ UNCHANGED <<seq, issued, week>>

update(task) ==
    IF task.id = None
    THEN /\ outcome' = Raised("update", task, "ValueError")
         /\ UNCHANGED <<tasks, seq, issued, week>>
    ELSE LET rows == UpdateRows(tasks, task)
         IN  IF foreign_keys /\ ForeignKeyViolated(rows)
             THEN /\ outcome' = Raised("update", task, "IntegrityError")
                  /\ UNCHANGED <<tasks, seq, issued, week>>
             ELSE /\ tasks' = rows
                  /\ outcome' = Returned("update", task, None,
                                         Cardinality({ r \in tasks : r.id = task.id }))
                  /\ UNCHANGED <<seq, issued, week>>

delete(task_id) ==
    /\ tasks' = DeleteRows(tasks, task_id)
    /\ outcome' = Returned("delete", task_id, None,
                           Cardinality(tasks) - Cardinality(DeleteRows(tasks, task_id)))
    /\ UNCHANGED <<seq, issued, week>>

(***************************************************************************)
(* week_dates.                                                             *)
(***************************************************************************)
\* the offset added to the day of the month, with no carry into month and year
DatePlusDays_NoCarry(base, offset) ==
    Returned("date + timedelta", None, Date(base.year, base.month, base.day + offset), 0)

\* base + timedelta(days=offset): date.fromordinal(base.toordinal() + offset),
\* OverflowError when the day is outside date.min .. date.max
DatePlusDays(base, offset) ==
    LET n == toordinal(base) + offset
    IN  IF n >= 1 /\ n <= MaxOrdinal
        THEN Returned("date + timedelta", None, fromordinal(n), 0)
        ELSE Raised("date + timedelta", None, "OverflowError")

\* week_dates(start) with an explicit start
week_dates(start) ==
    LET days == [ i \in 1..7 |-> DatePlusDays(start, i - 1) ]
    IN  IF \E i \in 1..7 : days[i].err # NoError
        THEN Raised("week_dates", None, "OverflowError")
        ELSE Returned("week_dates", None, [ i \in 1..7 |-> days[i].ret ], 0)

\* the start dates week_dates is tried with: the first day and the last days of
\* January, February and December, in leap and non-leap years and in the last
\* year of datetime.date
WeekStarts ==
    { date \in { Date(y, m, d) : y \in {1999, 2000, 2023, 2024, 2100, MAXYEAR},
                                 m \in {1, 2, 12}, d \in {1} \cup (22..31) } :
        date.day <= DaysInMonth(date.year, date.month) }

WeekDatesCall(start) ==
    /\ week' = [start |-> start, result |-> week_dates(start)]
    /\ UNCHANGED <<tasks, seq, outcome, issued, ui>>

(***************************************************************************)
(* The week view (planner_app/ui/main_window.py, task_dialog.py): one      *)
(* DayPanel per day, each with a TaskTree and the buttons Add Task, Add    *)
(* Subtask, Edit and Delete.  A handler that returns early, or a dialog    *)
(* that is cancelled, changes nothing and is no step.                      *)
(***************************************************************************)
\* the days of the week view that are modelled
PanelDays == StoreDates

\* what the user enters in a TaskDialog before accepting it: title text,
\* description text, due date and the Completed check box
DialogInputs ==
    { [title |-> "", description |-> "", due_date |-> Day1, is_completed |-> FALSE],
      [title |-> "Buy milk", description |-> "2 litres", due_date |-> Day1,
       is_completed |-> TRUE],
      [title |-> "Buy milk", description |-> "2 litres", due_date |-> Day2,
       is_completed |-> TRUE] }

\* TaskDialog.to_task(parent_task_id=...) of a dialog opened without a task
to_task_new(dialog, parent_task_id) ==
    Task(None, IF dialog.title = "" THEN "Untitled Task" ELSE dialog.title,
         dialog.due_date, dialog.description, dialog.is_completed, parent_task_id, 0)

\* TaskDialog.to_task(existing=...)
to_task_existing(dialog, existing) ==
    Task(existing.id, IF dialog.title = "" THEN "Untitled Task" ELSE dialog.title,
         dialog.due_date, dialog.description, dialog.is_completed,
         existing.parent_task_id, existing.sort_order)

\* TaskTree._to_item: the task id as item data and the check state
_to_item(task) == [id |-> task.id, checked |-> task.is_completed]

\* the items TaskTree.load_tasks builds: one top-level item per root task of the
\* day, with one child item per task of the day whose parent is that root
LoadItems(rows, day) ==
    LET listed == ListForDate(rows, day)
        IsRoot(t) == t.parent_task_id = None
        roots == SelectSeq(listed, IsRoot)
    IN  [ i \in 1..Len(roots) |->
            LET IsChild(t) == t.parent_task_id = roots[i].id
                children == SelectSeq(listed, IsChild)
            IN  [item |-> _to_item(roots[i]),
                 children |-> [ j \in 1..Len(children) |-> _to_item(children[j]) ]] ]

\* TaskTree.load_tasks: clear() leaves the tree without a current item
load_tasks(rows, day) == [items |-> LoadItems(rows, day), current |-> None]

\* all items of a tree, top-level and child
AllItems(tree) ==
    { tree.items[i].item : i \in DOMAIN tree.items }
    \cup UNION { { tree.items[i].children[j] : j \in DOMAIN tree.items[i].children } :
                   i \in DOMAIN tree.items }

\* the tree with the check box of the item of task id set to checked
SetChecked(tree, id, checked) ==
    [tree EXCEPT !.items =
        [ i \in DOMAIN tree.items |->
            [item |-> IF tree.items[i].item.id = id
                      THEN [id |-> id, checked |-> checked]
                      ELSE tree.items[i].item,
             children |->
                 [ j \in DOMAIN tree.items[i].children |->
                     IF tree.items[i].children[j].id = id
                     THEN [id |-> id, checked |-> checked]
                     ELSE tree.items[i].children[j] ]] ]]

\* TaskTree.selected_task_id
selected_task_id(tree) == tree.current

\* DayPanel._load_task and the lookup of TaskTree._on_item_changed: the tasks of
\* the day's list that have the id (none or one)
_load_task(day, task_id) ==
    LET listed == list_for_date(day)
    IN  { t \in { listed[k] : k \in DOMAIN listed } : t.id = task_id }

\* DayPanel.refresh after a repository call: only the panel's own tree is reloaded
Refreshed(day) == ui' = [ui EXCEPT ![day] = load_tasks(tasks', day)]

\* the user clicks an item of the tree, which becomes its current item
select_item(day, id) ==
    /\ id \in { it.id : it \in AllItems(ui[day]) }
    /\ ui' = [ui EXCEPT ![day].current = id]
    /\ UNCHANGED <<tasks, seq, outcome, issued, week>>

\* DayPanel.add_task with the dialog accepted
add_task(day, dialog) ==
    /\ create(to_task_new(dialog, None))
    /\ Refreshed(day)

\* DayPanel.add_subtask with an item selected and the dialog accepted
add_subtask(day, dialog) ==
    /\ selected_task_id(ui[day]) # None
    /\ create(to_task_new(dialog, selected_task_id(ui[day])))
    /\ Refreshed(day)

\* DayPanel.edit_task with an item selected whose task is still in the day's
\* list, and the dialog accepted
edit_task(day, dialog) ==
    /\ selected_task_id(ui[day]) # None
    /\ \E existing \in _load_task(day, selected_task_id(ui[day])) :
           update(to_task_existing(dialog, existing))
    /\ Refreshed(day)

\* DayPanel.delete_task with an item selected
delete_task(day) ==
    /\ selected_task_id(ui[day]) # None
    /\ delete(selected_task_id(ui[day]))
    /\ Refreshed(day)

\* the user toggles the check box of an item: TaskTree._on_item_changed writes the
\* new state to the task if the day's list still has it; the tree is not reloaded
toggle_completion(day, id) ==
    \E it \in AllItems(ui[day]) :
        /\ it.id = id
        /\ ui' = [ui EXCEPT ![day] = SetChecked(ui[day], id, ~it.checked)]
        /\ IF _load_task(day, id) = {}
           THEN UNCHANGED <<tasks, seq, outcome, issued, week>>
           ELSE \E task \in _load_task(day, id) :
                    update([task EXCEPT !.is_completed = ~it.checked])

(***************************************************************************)
(* Specifications.                                                         *)
(***************************************************************************)
NoCall == Returned("none", None, None, 0)

NoWeek == [start |-> Day1, result |-> NoCall]

\* a fresh database file: _init_db has created the empty table, and every
\* DayPanel has loaded its tree from it
Init ==
    /\ tasks = {}
    /\ seq = 0
    /\ outcome = NoCall
    /\ issued = {}
    /\ week = NoWeek
    /\ ui = [ day \in PanelDays |-> load_tasks({}, day) ]

\* the repository called directly
Create == \E task \in CreateInputs : create(task) /\ UNCHANGED ui

Update == \E task \in UpdateInputs : update(task) /\ UNCHANGED ui

Delete == \E task_id \in DeleteInputs : delete(task_id) /\ UNCHANGED ui

Next == Create \/ Update \/ Delete

Spec == Init /\ [][Next]_vars

WeekDates == \E start \in WeekStarts : WeekDatesCall(start)

NextWeek == WeekDates

SpecWeek == Init /\ [][NextWeek]_vars

\* the repository driven by the week view alone
SelectItem == \E day \in PanelDays, id \in 1..MaxId : select_item(day, id)

AddTask == \E day \in PanelDays, dialog \in DialogInputs : add_task(day, dialog)

AddSubtask == \E day \in PanelDays, dialog \in DialogInputs : add_subtask(day, dialog)

EditTask == \E day \in PanelDays, dialog \in DialogInputs : edit_task(day, dialog)

DeleteTask == \E day \in PanelDays : delete_task(day)

ToggleCompletion == \E day \in PanelDays, id \in 1..MaxId : toggle_completion(day, id)

NextUI == SelectItem \/ AddTask \/ AddSubtask \/ EditTask \/ DeleteTask \/ ToggleCompletion

SpecUI == Init /\ [][NextUI]_vars

(***************************************************************************)
(* Vocabulary of the properties.                                           *)
(***************************************************************************)
\* the dates list_for_date is read for: the stored dates and one with no task
QueryDates == StoreDates \cup {Date(2024, 2, 2)}

\* the stored tasks of a table content, as list_for_date hands them out
StoredTasks(rows) == { _row_to_task(r) : r \in rows }

\* the elements of a sequence
Range(s) == { s[i] : i \in DOMAIN s }

\* the ids of a sequence of tasks, in order
IdsOf(s) == [ i \in DOMAIN s |-> s[i].id ]

\* cluster key of a task: a root's own id, a child's parent_task_id
Cluster(t) == IF t.parent_task_id = None THEN t.id ELSE t.parent_task_id

\* a comes before b in the order of the ordering invariant
Precedes(a, b) ==
    \/ Cluster(a) < Cluster(b)
    \/ /\ Cluster(a) = Cluster(b)
       /\ \/ a.parent_task_id = None /\ b.parent_task_id # None
          \/ /\ a.parent_task_id # None
             /\ b.parent_task_id # None
             /\ \/ a.sort_order < b.sort_order
                \/ a.sort_order = b.sort_order /\ a.id < b.id

\* a with the id the store assigned
WithId(t, id) == [t EXCEPT !.id = id]

\* the last call was create / update / delete (every action records its own
\* operation, so a step that ends in such a state is a step of that operation)
Created == outcome.op = "create"

Updated == outcome.op = "update"

Deleted == outcome.op = "delete"

(***************************************************************************)
(* C1.  After delete(id) neither the task with that id nor any task whose  *)
(* parent_task_id equals id remains stored, and every task that is neither *)
(* the deleted task nor one of its descendants remains stored unchanged.   *)
(***************************************************************************)
C1_DeleteCascades ==
    [][ Deleted' =>
            /\ \A r \in tasks' : r.id # outcome'.arg /\ r.parent_task_id # outcome'.arg
            /\ \A r \in tasks :
                   r.id \notin CascadeFrom(tasks, {outcome'.arg}) => r \in tasks'
      ]_vars

(***************************************************************************)
(* C2.  In every reachable state every stored task whose parent_task_id is *)
(* non-null references the id of a task that is currently stored.          *)
(***************************************************************************)
C2_ParentsAreStored ==
    \A r \in tasks :
        r.parent_task_id # None => \E p \in tasks : p.id = r.parent_task_id

(***************************************************************************)
(* C3.  For every date D, list_for_date(D) returns each stored task due on *)
(* D exactly once and no other task, ordered by cluster key, then root     *)
(* before children, then sort_order, then id; tasks of one cluster are     *)
(* contiguous.                                                             *)
(***************************************************************************)
C3_ListForDateOrdered ==
    \A D \in QueryDates :
        LET L == list_for_date(D)
        IN  /\ Range(L) = { t \in StoredTasks(tasks) : t.due_date = D }
            /\ Len(L) = Cardinality({ t \in StoredTasks(tasks) : t.due_date = D })
            /\ \A i, j \in DOMAIN L : i < j => Precedes(L[i], L[j])
            /\ \A i, j, k \in DOMAIN L :
                   (i < j /\ j < k /\ Cluster(L[i]) = Cluster(L[k]))
                       => Cluster(L[j]) = Cluster(L[i])

\* a root (id 1) and its children id 2 with sort_order 1 and id 3 with
\* sort_order 0, all due on one day, are listed as [1, 3, 2]
C3_Witness ==
    \E D \in QueryDates :
        LET L == list_for_date(D)
        IN  /\ IdsOf(L) = <<1, 3, 2>>
            /\ L[1].parent_task_id = None
            /\ L[2].parent_task_id = 1 /\ L[2].sort_order = 0
            /\ L[3].parent_task_id = 1 /\ L[3].sort_order = 1

(***************************************************************************)
(* C4.  For every task T passed to create, the returned id differs from    *)
(* the id of every other stored task, and list_for_date(T.due_date) right  *)
(* afterwards contains a task with that id whose six other fields equal    *)
(* T's; an empty description is read back as the empty string.             *)
(***************************************************************************)
C4_CreateRoundTrip ==
    Created =>
        /\ outcome.err = NoError
        /\ Cardinality({ r \in tasks : r.id = outcome.ret }) = 1
        /\ WithId(outcome.arg, outcome.ret)
               \in Range(list_for_date(outcome.arg.due_date))

\* a create of a subtask with an empty description has returned, next to other
\* stored tasks, and the task is listed with the empty string as description
C4_Witness ==
    /\ Created
    /\ Cardinality(tasks) > 1
    /\ outcome.arg.description = ""
    /\ outcome.arg.parent_task_id # None
    /\ \E t \in Range(list_for_date(outcome.arg.due_date)) :
           t.id = outcome.ret /\ t.description = ""

(***************************************************************************)
(* C5.  After update(task) on a task whose id is stored,                   *)
(* list_for_date(task.due_date) contains the task with exactly the six     *)
(* supplied field values, and the task is in the list of no other date: an *)
(* update that changes due_date from D1 to D2 takes the task out of        *)
(* list_for_date(D1) and puts it into list_for_date(D2).  (The id was     *)
(* stored when the call was made exactly if its UPDATE changed one row.)   *)
(***************************************************************************)
C5_UpdateRoundTrip ==
    (Updated /\ outcome.changed = 1) =>
        /\ outcome.arg \in Range(list_for_date(outcome.arg.due_date))
        /\ \A D \in QueryDates \ {outcome.arg.due_date} :
               outcome.arg.id \notin Range(IdsOf(list_for_date(D)))

\* an update of a stored task has returned with the second day as due date, the
\* task is listed for that day, and another task is listed for the first day
C5_Witness ==
    /\ Updated
    /\ outcome.changed = 1
    /\ outcome.arg.due_date = Day2
    /\ outcome.arg \in Range(list_for_date(Day2))
    /\ list_for_date(Day1) # <<>>

(***************************************************************************)
(* C6.  update(task) with task.id unset raises a precondition error before *)
(* any write: the stored tasks, and list_for_date of every date, are the   *)
(* same before and after the failed call.                                  *)
(***************************************************************************)
C6_UpdateWithoutIdRaises ==
    [][ (Updated' /\ outcome'.arg.id = None) =>
            /\ outcome'.err = "ValueError"
            /\ tasks' = tasks
            /\ seq' = seq
            /\ \A D \in QueryDates : ListForDate(tasks', D) = ListForDate(tasks, D)
      ]_vars

\* an update without an id has raised ValueError on a store that holds tasks
C6_Witness ==
    /\ Updated
    /\ outcome.arg.id = None
    /\ outcome.err = "ValueError"
    /\ tasks # {}

(***************************************************************************)
(* C7 as claimed.  update(task) with an id that no stored task has fails   *)
(* with a precondition error and leaves the store unchanged.               *)
(***************************************************************************)
C7_UpdateOfMissingIdRaises ==
    [][ (Updated' /\ outcome'.arg.id # None /\ outcome'.arg.id \notin Ids(tasks)) =>
            /\ outcome'.err # NoError
            /\ tasks' = tasks
      ]_vars

(***************************************************************************)
(* C7 as amended.  update(task) with an id that no stored task has raises  *)
(* no error, changes no row and leaves the store unchanged; only an unset  *)
(* id raises the precondition error.                                       *)
(***************************************************************************)
C7_UpdateOfMissingIdIsNoOp ==
    [][ (Updated' /\ outcome'.arg.id # None /\ outcome'.arg.id \notin Ids(tasks)) =>
            /\ outcome'.err = NoError
            /\ outcome'.changed = 0
            /\ tasks' = tasks
            /\ seq' = seq
      ]_vars

\* an update of a task that was created and then deleted has returned, on a
\* store that holds other tasks
C7_Witness ==
    /\ Updated
    /\ outcome.arg.id \in issued
    /\ outcome.arg.id \notin Ids(tasks)
    /\ outcome.err = NoError
    /\ tasks # {}

(***************************************************************************)
(* C8.  delete(id) of an id that is not stored (never created, or already  *)
(* deleted) raises no error and leaves the stored tasks and all their      *)
(* fields unchanged.                                                       *)
(***************************************************************************)
C8_DeleteOfMissingIdIsNoOp ==
    [][ (Deleted' /\ outcome'.arg \notin Ids(tasks)) =>
            /\ outcome'.err = NoError
            /\ tasks' = tasks
            /\ seq' = seq
      ]_vars

\* a delete of an id that was created and is no longer stored has returned
\* without changing a row, on a store that holds other tasks
C8_Witness ==
    /\ Deleted
    /\ outcome.arg \in issued
    /\ outcome.changed = 0
    /\ outcome.err = NoError
    /\ tasks # {}

(***************************************************************************)
(* C10.  The ids create returns are strictly increasing: each is larger    *)
(* than every id returned before, also after the task holding the highest  *)
(* id has been deleted; and no update changes the id of a stored task.     *)
(***************************************************************************)
C10_IdsIncrease ==
    [][ /\ Created' =>
               /\ outcome'.err = NoError
               /\ \A i \in issued : i < outcome'.ret
        /\ Updated' =>
               /\ Ids(tasks') = Ids(tasks)
               /\ Cardinality(tasks') = Cardinality(tasks)
      ]_vars

\* a create has returned after the task that held the highest id so far was
\* deleted, while a task with a lower id is still stored
C10_Witness ==
    /\ Created
    /\ outcome.ret - 1 \in issued
    /\ outcome.ret - 1 \notin Ids(tasks)
    /\ \E r \in tasks : r.id < outcome.ret

(***************************************************************************)
(* Vocabulary of the week_dates properties.                                *)
(***************************************************************************)
\* the calendar day after d (the year is not bounded here)
NextDay(d) ==
    IF d.day < DaysInMonth(d.year, d.month) THEN Date(d.year, d.month, d.day + 1)
    ELSE IF d.month < 12 THEN Date(d.year, d.month + 1, 1)
    ELSE Date(d.year + 1, 1, 1)

RECURSIVE PlusDays(_, _)
\* d plus i days, counted day by day
PlusDays(d, i) == IF i = 0 THEN d ELSE PlusDays(NextDay(d), i - 1)

\* the last call of week_dates has ended
WeekCalled == week.result.op = "week_dates"

\* week_dates(start) returned the 7 days start, start + 1, ..., start + 6
ReturnedWeek(w) ==
    /\ w.result.err = NoError
    /\ Len(w.result.ret) = 7
    /\ \A i \in 1..7 : w.result.ret[i] = PlusDays(w.start, i - 1)
    /\ w.result.ret[1] = w.start
    /\ \A i \in 1..6 : w.result.ret[i + 1] = NextDay(w.result.ret[i])

(***************************************************************************)
(* C9 as claimed.  week_dates(start) returns, for any explicit start date, *)
(* exactly 7 dates, the i-th (i = 0..6) being start plus i days.           *)
(***************************************************************************)
C9_WeekDatesOfAnyStart == WeekCalled => ReturnedWeek(week)

(***************************************************************************)
(* C9 as amended.  For every start date no later than 9999-12-25 (so that  *)
(* start plus 6 days is a date), week_dates(start) returns exactly 7 dates *)
(* in order, the i-th being start plus i days, across month and year       *)
(* boundaries; for a later start it raises OverflowError.  The call does   *)
(* not change the store.                                                   *)
(***************************************************************************)
C9_WeekDatesWithinRange ==
    [][ WeekCalled' =>
            /\ IF PlusDays(week'.start, 6).year <= MAXYEAR
               THEN ReturnedWeek(week')
               ELSE week'.result.err = "OverflowError"
            /\ UNCHANGED <<tasks, seq, outcome, issued, ui>>
      ]_vars

\* week_dates of a start in the last days of a leap February has returned a
\* week that ends in March
C9_Witness ==
    /\ WeekCalled
    /\ week.result.err = NoError
    /\ week.start.month = 2
    /\ week.result.ret[1] = week.start
    /\ \E i \in 1..7 : week.result.ret[i] = Date(week.start.year, 2, 29)
    /\ week.result.ret[7].month = 3

(***************************************************************************)
(* C12.  update(task) is a full overwrite of exactly one record: it sets   *)
(* all six fields (title, description, due_date, is_completed,             *)
(* parent_task_id, sort_order) of the record whose id equals task.id,      *)
(* never inserts or removes a record, and leaves every field of every      *)
(* other stored task unchanged.                                            *)
(***************************************************************************)
C12_UpdateOverwritesOneRecord ==
    /\ [](Updated =>
              \A r \in tasks : r.id = outcome.arg.id => _row_to_task(r) = outcome.arg)
    /\ [][ Updated' =>
               /\ Cardinality(tasks') = Cardinality(tasks)
               /\ { r \in tasks' : r.id # outcome'.arg.id }
                      = { r \in tasks : r.id # outcome'.arg.id }
         ]_vars

\* an update of a stored subtask has changed its row while two other tasks are
\* stored beside it
C12_Witness ==
    /\ Updated
    /\ outcome.err = NoError
    /\ outcome.changed = 1
    /\ outcome.arg.parent_task_id # None
    /\ TaskToRow(outcome.arg.id, outcome.arg) \in tasks
    /\ Cardinality(tasks) = 3

(***************************************************************************)
(* C11.  After any sequence of week-view actions (Add Task, Add Subtask on *)
(* the currently selected tree item, Edit, Delete, toggle completion)      *)
(* starting from an empty store, nesting never exceeds one level: no       *)
(* stored task with a non-null parent_task_id has a parent whose own       *)
(* parent_task_id is non-null.                                             *)
(***************************************************************************)
C11_NestingAtMostOneLevel ==
    \A r \in tasks :
        r.parent_task_id # None =>
            \A p \in tasks : p.id = r.parent_task_id => p.parent_task_id = None

====
